---- MODULE Spec2Model ----
\* A model of pyunc's UNCFile: the decoder from_file and the two partition
\* operations split_echoes and split_volumes (src/pyunc/__init__.py).
\*
\* The byte source is modelled section by section: for every entry of the
\* address table the model holds the bytes (or 32-bit words) that the file
\* offers from that address on.  Dimension words are signed; -1 stands for
\* the negative ones.  Python objects live in `heap`, a sequence of
\* objects whose index is the object's identity, so that sharing and copying
\* are visible.  An ndarray is a view [base, off, shape] on a heap buffer in
\* C (row-major) order.
EXTENDS Integers, Sequences, FiniteSets, TLC

VARIABLES
    f,          \* the byte source handed to from_file
    heap,       \* the Python objects created so far, by identity
    uf,         \* the object from_file returned, or None
    results,    \* the list the last partition call returned
    ret,        \* the last call: its name, its argument and what it raised
    snap,       \* the heap and the contents of results as the last call left them
    written     \* the indices of the results the caller has written to since

vars == <<f, heap, uf, results, ret, snap, written>>

\* ---------------------------------------------------------------- bounds

MaxSlices == 4
MaxRecords == 3
MaxDim == 2
MaxVols == 3
MaxWrites == 2

\* ------------------------------------------------------- program constants

SIZES ==
    [title |-> 81, validmaxmin |-> 4, maxmin |-> 8, validhistogram |-> 4,
     histogram |-> 4096, pixelformat |-> 4, dimc |-> 4, dimv |-> 40]

AddressBytes == 36
NUL == 0
WordBytes == 4

None == [kind |-> "None"]
NoExc == "none"

\* ------------------------------------------------------------ sequences

Min(S) == CHOOSE x \in S : \A y \in S : x <= y

RECURSIVE Prod(_)
Prod(s) == IF s = <<>> THEN 1 ELSE Head(s) * Prod(Tail(s))

\* str.split(sep, 1)[0]: the part before the first sep, all of s without one
SplitFirst(s, sep) ==
    LET at == {i \in 1 .. Len(s) : s[i] = sep}
    IN  IF at = {} THEN s ELSE SubSeq(s, 1, Min(at) - 1)

\* str.split(sep): the maximal pieces between separators, empty ones included
RECURSIVE SplitAll(_, _)
SplitAll(s, sep) ==
    LET at == {i \in 1 .. Len(s) : s[i] = sep}
    IN  IF at = {} THEN <<s>>
        ELSE <<SubSeq(s, 1, Min(at) - 1)>>
                 \o SplitAll(SubSeq(s, Min(at) + 1, Len(s)), sep)

\* bytes.decode('ascii'): code points are the byte values; a byte above 127
\* raises UnicodeDecodeError
IsAscii(bytes) == \A i \in 1 .. Len(bytes) : bytes[i] <= 127

\* one sample of dtype '>i2': two bytes, high first, two's complement
I2(hi, lo) ==
    LET u == hi * 256 + lo IN IF u >= 32768 THEN u - 65536 ELSE u

\* np.fromfile(f, '>i2', count): the whole samples on offer, at most count;
\* all of them for a negative count
FromFile_i2(bytes, count) ==
    LET have == Len(bytes) \div 2
        n == IF count < 0 \/ have < count THEN have ELSE count
    IN  [p \in 1 .. n |-> I2(bytes[2 * p - 1], bytes[2 * p])]

\* ----------------------------------------------------------- collaborators

\* UNCHeader(text) and SliceHeader(text) of pyunc/header.py.  A slice record's
\* text is read as digits: the first is the slice location, the second, when
\* there is one, the Echo Number.
UNCHeader(text) == [kind |-> "UNCHeader", text |-> text]

SliceHeader(text) ==
    [kind |-> "SliceHeader",
     slice_location |-> text[1] - 48,
     dicom_header |-> IF Len(text) >= 2
                      THEN ("Echo Number" :> (text[2] - 48))
                      ELSE <<>>]

\* ------------------------------------------------------------------ heap

Tuple(val) == [kind |-> "tuple", val |-> val]
List(items) == [kind |-> "list", items |-> items]
Buffer(data) == [kind |-> "buffer", data |-> data]

\* s.slice_location of the record object with identity id
Loc(h, id) == h[id].slice_location

\* s.dicom_header.get('Echo Number', 0)
EchoGet(h, id) ==
    LET d == h[id].dicom_header
    IN  IF "Echo Number" \in DOMAIN d THEN d["Echo Number"] ELSE 0

\* list.sort(key=...) is stable: x goes behind every element whose key is
\* not greater than its own
RECURSIVE InsertByLoc(_, _, _)
InsertByLoc(h, sorted, x) ==
    IF sorted = <<>> THEN <<x>>
    ELSE IF Loc(h, sorted[Len(sorted)]) <= Loc(h, x) THEN Append(sorted, x)
    ELSE Append(InsertByLoc(h, SubSeq(sorted, 1, Len(sorted) - 1), x),
                sorted[Len(sorted)])

RECURSIVE SortLoop(_, _, _)
SortLoop(h, items, done) ==
    IF items = <<>> THEN done
    ELSE SortLoop(h, Tail(items), InsertByLoc(h, done, Head(items)))

SortByLocation(h, items) == SortLoop(h, items, <<>>)

\* ------------------------------------------------------------ from_file

Raise(exc) == [exc |-> exc]

\* struct.unpack('>9i', f.read(36))
_read_addresses(file) ==
    IF file.addresses < AddressBytes THEN Raise("struct.error") ELSE Raise(NoExc)

_read_title(file) ==
    IF Len(file.title) < SIZES.title THEN Raise("struct.error")
    ELSE LET field == SubSeq(file.title, 1, SIZES.title)
         IN  IF ~IsAscii(field) THEN Raise("UnicodeDecodeError")
             ELSE [exc |-> NoExc, title |-> SplitFirst(field, NUL)]

_read_maxmin(file) ==
    IF Len(file.maxmin) * WordBytes < SIZES.validmaxmin THEN Raise("struct.error")
    ELSE IF (Len(file.maxmin) - 1) * WordBytes < SIZES.maxmin
         THEN Raise("struct.error")
    ELSE [exc |-> NoExc, valid_maxmin |-> (file.maxmin[1] = 1),
          min |-> file.maxmin[2], max |-> file.maxmin[3]]

\* the 1024 bins are kept as their number and the value they all hold
_read_histogram(file) ==
    IF file.histogram.words * WordBytes < SIZES.validhistogram
    THEN Raise("struct.error")
    ELSE IF (file.histogram.words - 1) * WordBytes < SIZES.histogram
         THEN Raise("struct.error")
    ELSE [exc |-> NoExc, valid_histogram |-> (file.histogram.flag = 1),
          histogram |-> [len |-> SIZES.histogram \div WordBytes,
                         bin |-> file.histogram.bin]]

_read_pixel_format(file) ==
    IF Len(file.pixel_format) * WordBytes < SIZES.pixelformat
    THEN Raise("struct.error")
    ELSE [exc |-> NoExc, pixel_format |-> file.pixel_format[1]]

_read_dimc(file) ==
    IF Len(file.dimc) * WordBytes < SIZES.dimc THEN Raise("struct.error")
    ELSE [exc |-> NoExc, dimc |-> file.dimc[1]]

_read_dimv(file) ==
    IF Len(file.dimv) * WordBytes < SIZES.dimv THEN Raise("struct.error")
    ELSE [exc |-> NoExc, dimv |-> SubSeq(file.dimv, 1, SIZES.dimv \div WordBytes)]

\* for i in range(dimc): pixel_count *= dimv[i]
RECURSIVE PixelCountLoop(_, _, _, _)
PixelCountLoop(dimc, dimv, i, pixel_count) ==
    IF i >= dimc THEN [exc |-> NoExc, pixel_count |-> pixel_count]
    ELSE IF i >= Len(dimv) THEN Raise("IndexError")
    ELSE PixelCountLoop(dimc, dimv, i + 1, pixel_count * dimv[i + 1])

\* The slip of starting the loop at 1.
_calculate_pixel_count_FromOne(dimc, dimv) == PixelCountLoop(dimc, dimv, 1, 1)

_calculate_pixel_count(dimc, dimv) == PixelCountLoop(dimc, dimv, 0, 1)

\* the records of the info section: split on NUL, empty pieces dropped
InfoRecords(info_field) ==
    SelectSeq(SplitAll(info_field, NUL), LAMBDA r : r # <<>>)

\* The slip of stopping at the last record there is.
RECURSIVE SliceLoop_Lenient(_, _, _, _)
SliceLoop_Lenient(h, info, i, last) ==
    IF i > last \/ i >= Len(info) THEN [exc |-> NoExc, heap |-> h]
    ELSE SliceLoop_Lenient(Append(h, SliceHeader(info[i + 1])), info, i + 1, last)

\* for i in range(1, dimv[0] + 1): slice_info.append(SliceHeader(info[i]))
\* The objects are appended to the heap h in file order; the result is the
\* heap and the exception, if any.
RECURSIVE SliceLoop(_, _, _, _)
SliceLoop(h, info, i, last) ==
    IF i > last THEN [exc |-> NoExc, heap |-> h]
    ELSE IF i >= Len(info) THEN Raise("IndexError")
    ELSE SliceLoop(Append(h, SliceHeader(info[i + 1])), info, i + 1, last)

\* The slip of leaving the records in file order.
SliceOrder_Unsorted(h, items) == items

\* The order slice_info is left in (line 124).
SliceOrder(h, items) == SortByLocation(h, items)

\* The objects start from heap h0, which holds the dimv tuple.
_read_info(file, h0, dimv) ==
    IF ~IsAscii(file.info) THEN Raise("UnicodeDecodeError")
    ELSE LET info == InfoRecords(file.info)
         IN  IF info = <<>> THEN Raise("IndexError")
             ELSE LET h1 == Append(h0, UNCHeader(info[1]))
                      loop == SliceLoop(h1, info, 1, dimv[1])
                  IN  IF loop.exc # NoExc THEN Raise(loop.exc)
                      ELSE LET ids == [k \in 1 .. (Len(loop.heap) - Len(h1))
                                          |-> Len(h1) + k]
                               items == SliceOrder(loop.heap, ids)
                           IN  [exc |-> NoExc, info |-> info,
                                header |-> Len(h1),
                                slice_info |-> Len(loop.heap) + 1,
                                heap |-> Append(loop.heap, List(items))]

\* The slip of taking the samples read as they come, however many.
_read_pixels_Unchecked(file, h, dimc, dimv, pixel_count) ==
    [exc |-> NoExc,
     pixels |-> [base |-> Len(h) + 1, off |-> 0,
                 shape |-> <<Len(FromFile_i2(file.pixels, pixel_count))>>],
     heap |-> Append(h, Buffer(FromFile_i2(file.pixels, pixel_count)))]

\* dimv[0:dimc]: a negative dimc counts from the end of the tuple
SliceTo(dimv, dimc) ==
    LET stop == IF dimc < 0 THEN Len(dimv) + dimc ELSE dimc
    IN  SubSeq(dimv, 1, IF stop < 0 THEN 0
                        ELSE IF stop > Len(dimv) THEN Len(dimv) ELSE stop)

\* np.reshape(a, shape) of an array of the given size: the shape of the
\* result, or ValueError.  One dimension may be -1 and is then worked out
\* from the size.  (-1 is the only negative value the byte sources hold.)
Reshape(size, shape) ==
    LET unknown == {k \in 1 .. Len(shape) : shape[k] < 0}
        known == Prod([k \in 1 .. Len(shape) |->
                          IF shape[k] < 0 THEN 1 ELSE shape[k]])
    IN  IF unknown = {}
        THEN IF size = known THEN [exc |-> NoExc, shape |-> shape]
             ELSE Raise("ValueError")
        ELSE IF Cardinality(unknown) > 1 THEN Raise("ValueError")
        ELSE IF known = 0 THEN Raise("ValueError")
        ELSE IF size % known # 0 THEN Raise("ValueError")
        ELSE [exc |-> NoExc,
              shape |-> [k \in 1 .. Len(shape) |->
                            IF shape[k] < 0 THEN size \div known ELSE shape[k]]]

\* the result of np.reshape is a view of lin_pixels' buffer
_read_pixels(file, h, dimc, dimv, pixel_count) ==
    LET lin_pixels == FromFile_i2(file.pixels, pixel_count)
        r == Reshape(Len(lin_pixels), SliceTo(dimv, dimc))
    IN  IF r.exc # NoExc THEN Raise(r.exc)
        ELSE [exc |-> NoExc,
              pixels |-> [base |-> Len(h) + 1, off |-> 0, shape |-> r.shape],
              heap |-> Append(h, Buffer(lin_pixels))]

\* the calls of from_file before _read_info: the fields read from the
\* fixed-width sections and pixel_count, or the first exception
FixedFields(file) ==
    LET a == _read_addresses(file)
        t == _read_title(file)
        m == _read_maxmin(file)
        g == _read_histogram(file)
        pf == _read_pixel_format(file)
        c == _read_dimc(file)
        v == _read_dimv(file)
    IN  IF a.exc # NoExc THEN Raise(a.exc)
        ELSE IF t.exc # NoExc THEN Raise(t.exc)
        ELSE IF m.exc # NoExc THEN Raise(m.exc)
        ELSE IF g.exc # NoExc THEN Raise(g.exc)
        ELSE IF pf.exc # NoExc THEN Raise(pf.exc)
        ELSE IF c.exc # NoExc THEN Raise(c.exc)
        ELSE IF v.exc # NoExc THEN Raise(v.exc)
        ELSE
        LET n == _calculate_pixel_count(c.dimc, v.dimv)
        IN  IF n.exc # NoExc THEN Raise(n.exc)
            ELSE [exc |-> NoExc,
                  title |-> t.title,
                  valid_maxmin |-> m.valid_maxmin,
                  min |-> m.min, max |-> m.max,
                  valid_histogram |-> g.valid_histogram,
                  histogram |-> g.histogram,
                  pixel_format |-> pf.pixel_format,
                  dimc |-> c.dimc,
                  dimv |-> v.dimv,
                  pixel_count |-> n.pixel_count]

\* from_file: the object and the heap it lives in, or the first exception.
\* The dimv tuple is object 1, the header object 2, the slice records follow
\* in file order, then the slice_info list and the pixel buffer.
from_file(file) ==
    LET x == FixedFields(file)
    IN  IF x.exc # NoExc THEN Raise(x.exc)
        ELSE
        LET i == _read_info(file, <<Tuple(x.dimv)>>, x.dimv)
        IN  IF i.exc # NoExc THEN Raise(i.exc)
        ELSE
        LET p == _read_pixels(file, i.heap, x.dimc, x.dimv, x.pixel_count)
        IN  IF p.exc # NoExc THEN Raise(p.exc)
        ELSE [exc |-> NoExc,
              heap |-> p.heap,
              uf |-> [kind |-> "UNCFile",
                      title |-> x.title,
                      valid_maxmin |-> x.valid_maxmin,
                      min |-> x.min, max |-> x.max,
                      valid_histogram |-> x.valid_histogram,
                      histogram |-> x.histogram,
                      pixel_format |-> x.pixel_format,
                      dimc |-> x.dimc,
                      dimv |-> 1,
                      pixel_count |-> x.pixel_count,
                      info |-> i.info,
                      header |-> i.header,
                      slice_info |-> i.slice_info,
                      pixels |-> p.pixels]]

\* ---------------------------------------------------------------- ndarray

\* the number of elements of an array of the given shape
Size(shape) == Prod(shape)

\* the elements of a view, in row-major order
ViewData(h, a) == SubSeq(h[a.base].data, a.off + 1, a.off + Size(a.shape))

\* the flat position of the element at multi-index idx (0-based) in C order
RECURSIVE Ravel(_, _)
Ravel(shape, idx) ==
    IF shape = <<>> THEN 0
    ELSE Head(idx) * Prod(Tail(shape)) + Ravel(Tail(shape), Tail(idx))

\* the multi-index of the element at flat position p
Unravel(shape, p) ==
    [k \in 1 .. Len(shape) |->
        (p \div Prod(SubSeq(shape, k + 1, Len(shape)))) % shape[k]]

\* a[start:end] along the first axis, 0 <= start <= end <= a.shape[0]
SliceRows(a, start, end) ==
    [base |-> a.base,
     off |-> a.off + start * Prod(Tail(a.shape)),
     shape |-> <<end - start>> \o Tail(a.shape)]

\* numpy's rule for dst[...] = src: leading axes of length 1 are dropped from
\* src while it has more axes than dst
RECURSIVE StripOnes(_, _)
StripOnes(src, ndim) ==
    IF Len(src) > ndim /\ Head(src) = 1 THEN StripOnes(Tail(src), ndim) ELSE src

\* ... and what is left must broadcast to dst, axis by axis from the right
CanAssign(src, dst) ==
    LET s == StripOnes(src, Len(dst))
        d == Len(dst) - Len(s)
    IN  /\ d >= 0
        /\ \A k \in 1 .. Len(s) : s[k] = dst[k + d] \/ s[k] = 1

\* the flat position in src of the element that goes to flat position p of dst
BroadcastFrom(src, dst, p) ==
    LET s == StripOnes(src, Len(dst))
        d == Len(dst) - Len(s)
        idx == Unravel(dst, p)
    IN  Ravel(s, [k \in 1 .. Len(s) |-> IF s[k] = 1 THEN 0 ELSE idx[k + d]])

\* The slip of taking the partition index for the first slice.
StartSlice_Unscaled(per, i) == i

\* start_slice = slices_per_vol * i
StartSlice(per, i) == per * i

\* split_pixels = np.ndarray((n, per, shape[1], shape[2])) and the loop
\*   split_pixels[i, :, :, :] = self.pixels[per * i : per * i + per, :, :]
\* of both partition operations.  np.ndarray leaves the new buffer
\* uninitialised; the loop assigns every element of it before it is read.
\* The result is the new buffer's data, or the exception.
SplitPixels(h, pixels, n) ==
    IF Len(pixels.shape) < 1 THEN Raise("IndexError")
    ELSE IF n = 0 THEN Raise("ZeroDivisionError")
    ELSE IF Len(pixels.shape) < 3 THEN Raise("IndexError")
    ELSE
    LET per == pixels.shape[1] \div n
        dst == <<per, pixels.shape[2], pixels.shape[3]>>
        src == <<per>> \o Tail(pixels.shape)
    IN  IF ~CanAssign(src, dst) THEN Raise("ValueError")
        ELSE [exc |-> NoExc,
              per |-> per,
              shape |-> dst,
              data |-> [q \in 1 .. (n * Size(dst)) |->
                  LET i == (q - 1) \div Size(dst)
                      p == (q - 1) % Size(dst)
                      start_slice == StartSlice(per, i)
                      from == SliceRows(pixels, start_slice, start_slice + per)
                  IN  ViewData(h, from)[BroadcastFrom(src, dst, p) + 1]]]

\* The slip of handing every result the first partition.
SplitView_Shared(buf, shape, n) == [base |-> buf, off |-> 0, shape |-> shape]

\* uf.pixels = split_pixels[n, :, :, :]: a view of the new buffer
SplitView(buf, shape, n) ==
    [base |-> buf, off |-> n * Size(shape), shape |-> shape]

\* --------------------------------------------------------------- num_echoes

num_echoes(h, self) ==
    Cardinality({EchoGet(h, h[self.slice_info].items[k]) :
                    k \in 1 .. Len(h[self.slice_info].items)})

\* ------------------------------------------------------------ split_echoes

\* The slip of comparing the Echo Number with the 0-based index.
EchoItems_ZeroBased(h, self, n) ==
    SelectSeq(h[self.slice_info].items,
              LAMBDA id : h[id].dicom_header["Echo Number"] = n)

\* [s for s in self.slice_info if s.dicom_header['Echo Number'] == n + 1]
EchoItems(h, self, n) ==
    SelectSeq(h[self.slice_info].items,
              LAMBDA id : h[id].dicom_header["Echo Number"] = n + 1)

\* The new objects are appended to heap h: the buffer, then one list per
\* result.  The value is the list of results.
split_echoes(h, self) ==
    LET N == num_echoes(h, self)
        sp == SplitPixels(h, self.pixels, N)
        items == h[self.slice_info].items
    IN  IF sp.exc # NoExc THEN Raise(sp.exc)
        ELSE IF \E k \in 1 .. Len(items) :
                    "Echo Number" \notin DOMAIN h[items[k]].dicom_header
             THEN Raise("KeyError")
        ELSE
        LET buf == Len(h) + 1
        IN  [exc |-> NoExc,
             heap |-> (Append(h, Buffer(sp.data)))
                          \o [n \in 1 .. N |-> List(EchoItems(h, self, n - 1))],
             value |-> [n \in 1 .. N |->
                 [kind |-> "UNCFile",
                  header |-> self.header,
                  dimc |-> self.dimc,
                  dimv |-> self.dimv,
                  slice_info |-> buf + n,
                  pixels |-> SplitView(buf, sp.shape, n - 1)]]]

\* ----------------------------------------------------------- split_volumes

\* self.slice_info[0::n_vols]
Strided(items, n_vols) ==
    [k \in 1 .. ((Len(items) + n_vols - 1) \div n_vols) |->
        items[(k - 1) * n_vols + 1]]

\* The records of the slices that volume n holds.
VolumeItems_Contiguous(h, self, n_vols, n) ==
    LET items == h[self.slice_info].items
        per == Len(items) \div n_vols
    IN  SubSeq(items, n * per + 1, (n + 1) * per)

\* [s for s in self.slice_info[0::n_vols]] for volume n
VolumeItems(h, self, n_vols, n) == Strided(h[self.slice_info].items, n_vols)

split_volumes(h, self, n_vols) ==
    LET sp == SplitPixels(h, self.pixels, n_vols)
    IN  IF sp.exc # NoExc THEN Raise(sp.exc)
        ELSE
        LET buf == Len(h) + 1
        IN  [exc |-> NoExc,
             heap |-> (Append(h, Buffer(sp.data)))
                          \o [n \in 1 .. n_vols |->
                                 List(VolumeItems(h, self, n_vols, n - 1))],
             value |-> [n \in 1 .. n_vols |->
                 [kind |-> "UNCFile",
                  header |-> self.header,
                  dimc |-> self.dimc,
                  dimv |-> self.dimv,
                  slice_info |-> buf + n,
                  pixels |-> SplitView(buf, sp.shape, n - 1)]]]

\* --------------------------------------------------------- the byte sources

\* ten dimension words, the ones behind the given ones set to pad
Pad(dims, pad) ==
    dims \o [k \in 1 .. (SIZES.dimv \div WordBytes - Len(dims)) |-> pad]

\* "BRAIN" and 76 null bytes
GoodTitle == <<66, 82, 65, 73, 78>> \o [k \in 1 .. (SIZES.title - 5) |-> NUL]

\* a field of n bytes: k letters, then a null byte (when k < n), then fill
TitleField(n, k, fill) ==
    [i \in 1 .. n |-> IF i <= k THEN 65 + (i % 2)
                      ELSE IF i = k + 1 THEN NUL ELSE fill]

\* the j-th byte (from 0) of the pixel stream: samples differ from one
\* another, and the first ones are negative
PixByte(j) == IF j % 2 = 0 THEN (250 + 3 * (j \div 2)) % 256 ELSE (j \div 2) + 1

PixelBytes(nbytes) == [j \in 1 .. nbytes |-> PixByte(j - 1)]

\* the text of a slice record: location digit, then echo digit (0: none)
Text(loc, echo) == IF echo = 0 THEN <<48 + loc>> ELSE <<48 + loc, 48 + echo>>

Texts == {Text(1, 2), Text(2, 1), Text(3, 0), Text(2, 3)}

HeaderText == <<72>>

\* S slice records whose locations are out of order and whose echoes alternate
StdRecs(S) == [j \in 1 .. S |-> Text((((S - j) * 2) % 3) + 1, ((j - 1) % 2) + 1)]

\* the info section: style 1 ends every record with a null byte, style 2
\* puts two null bytes before every record
RECURSIVE Join(_, _)
Join(recs, style) ==
    IF recs = <<>> THEN <<>>
    ELSE (IF style = 1 THEN Head(recs) \o <<NUL>> ELSE <<NUL, NUL>> \o Head(recs))
             \o Join(Tail(recs), style)

MkFile(title, dimc, dimv, info, pixels) ==
    [addresses |-> AddressBytes,
     title |-> title,
     maxmin |-> <<1, -5, 9>>,
     histogram |-> [words |-> 1 + SIZES.histogram \div WordBytes,
                    flag |-> 0, bin |-> 0],
     pixel_format |-> <<10>>,
     dimc |-> <<dimc>>,
     dimv |-> dimv,
     info |-> info,
     pixels |-> pixels]

\* a well-formed file of S slices of shape <<1, 2>>
StdFile(S) ==
    MkFile(GoodTitle, 3, Pad(<<S, 1, 2>>, 1),
           Join(<<HeaderText>> \o StdRecs(S), 1), PixelBytes(2 * S * 2))

\* every title field: k letters before the first null byte, k = 81 for none
TitleFiles ==
    {[StdFile(2) EXCEPT !.title = TitleField(SIZES.title, k, fill)] :
        k \in 0 .. SIZES.title, fill \in {NUL, 66}}
    \cup {[StdFile(2) EXCEPT !.title = TitleField(n, 3, 66)] :
            n \in {SIZES.title - 1, SIZES.title + 4}}
    \cup {[StdFile(2) EXCEPT !.title = [GoodTitle EXCEPT ![2] = 200]]}

\* one fixed-width section a few bytes short
ShortFiles ==
    {[StdFile(2) EXCEPT !.addresses = AddressBytes - 1],
     [StdFile(2) EXCEPT !.maxmin = <<>>],
     [StdFile(2) EXCEPT !.maxmin = <<1, -5>>],
     [StdFile(2) EXCEPT !.histogram.words = 0],
     [StdFile(2) EXCEPT !.histogram.words = SIZES.histogram \div WordBytes],
     [StdFile(2) EXCEPT !.pixel_format = <<>>],
     [StdFile(2) EXCEPT !.dimc = <<>>],
     [StdFile(2) EXCEPT !.dimv = Pad(<<2, 1>>, 1)]}

DimVectors ==
    {Pad(<<a, b, c>>, 1) : a \in 0 .. MaxSlices, b \in 1 .. MaxDim, c \in 1 .. MaxDim}
    \cup {Pad(<<2, 1, 2>>, 0), Pad(<<2, 0, 2>>, 1), Pad(<<1, 2, 0>>, 1),
          Pad(<<-1, 1, 2>>, 1), Pad(<<2, -1, 2>>, 1), Pad(<<-1, 2, -1>>, 1),
          <<1, 1, 1, 2, 1, 1, 1, 1, 1, 2>>,
          <<2, 2, 1, 1, 2, 1, 1, 1, 1, 1>>}

\* the size of the product of the dimensions dimv[0:dimc]
Expected(dimc, dimv) ==
    LET n == Prod(SliceTo(dimv, dimc)) IN IF n < 0 THEN -n ELSE n

\* every dimension count (-1 and 11 too) and vector, with a pixel stream that
\* is exact, too long, or short by a byte or by a sample
DimFiles ==
    UNION {
        {MkFile(GoodTitle, dimc, dimv,
                Join(<<HeaderText>> \o StdRecs(dimv[1]), 1), PixelBytes(n)) :
            n \in {m \in {2 * Expected(dimc, dimv) + d : d \in {-2, -1, 0, 3}} :
                      m >= 0}} :
        dimc \in -1 .. (SIZES.dimv \div WordBytes + 1), dimv \in DimVectors}

Infos ==
    {<<>>, Join(<<HeaderText, <<49, 200>>, Text(1, 1), Text(1, 1)>>, 1)}
    \cup UNION {
        {Join(<<HeaderText>> \o recs, style) : recs \in [1 .. L -> Texts],
                                                 style \in 1 .. 2} :
        L \in 0 .. MaxRecords}

\* every order and number of slice records, for every slice count
InfoFiles ==
    {MkFile(GoodTitle, 3, Pad(<<S, 1, 2>>, 1), info, PixelBytes(2 * S * 2)) :
        S \in 0 .. MaxRecords, info \in Infos}

Files == TitleFiles \cup ShortFiles \cup DimFiles \cup InfoFiles

\* ---------------------------------------------------------------- actions

NoCall == [op |-> "none", n |-> 0, exc |-> NoExc]

Init ==
    /\ f \in Files
    /\ heap = <<>>
    /\ uf = None
    /\ results = <<>>
    /\ ret = NoCall
    /\ snap = [uf |-> None, decoded |-> <<>>, split |-> <<>>]
    /\ written = {}

\* uf = UNCFile.from_file(f)
FromFile ==
    /\ ret.op = "none"
    /\ \E r \in {from_file(f)} :
           /\ ret' = [op |-> "from_file", n |-> 0, exc |-> r.exc]
           /\ uf' = IF r.exc = NoExc THEN r.uf ELSE None
           /\ heap' = IF r.exc = NoExc THEN r.heap ELSE <<>>
           /\ snap' = [uf |-> uf', decoded |-> heap', split |-> heap']
    /\ UNCHANGED <<f, results, written>>

\* the objects that from_file created; what an earlier partition call
\* returned is dropped when the caller calls again
Base(h) == SubSeq(h, 1, uf.pixels.base)

\* results = uf.split_echoes()
SplitEchoes ==
    /\ uf # None
    /\ \E r \in {split_echoes(Base(heap), uf)} :
           /\ ret' = [op |-> "split_echoes", n |-> 0, exc |-> r.exc]
           /\ results' = IF r.exc = NoExc THEN r.value ELSE <<>>
           /\ heap' = IF r.exc = NoExc THEN r.heap ELSE Base(heap)
           /\ snap' = [snap EXCEPT !.split = heap']
    /\ written' = {}
    /\ UNCHANGED <<f, uf>>

\* results = uf.split_volumes(n_vols)
SplitVolumes ==
    /\ uf # None
    /\ \E n_vols \in 0 .. MaxVols :
        \E r \in {split_volumes(Base(heap), uf, n_vols)} :
            /\ ret' = [op |-> "split_volumes", n |-> n_vols, exc |-> r.exc]
            /\ results' = IF r.exc = NoExc THEN r.value ELSE <<>>
            /\ heap' = IF r.exc = NoExc THEN r.heap ELSE Base(heap)
            /\ snap' = [snap EXCEPT !.split = heap']
    /\ written' = {}
    /\ UNCHANGED <<f, uf>>

\* the caller stores into a pixel of a result: results[k].pixels.flat[p] = v
SetPixel ==
    /\ Cardinality(written) < MaxWrites
    /\ \E k \in 1 .. Len(results) :
        \E p \in 1 .. Size(results[k].pixels.shape) :
            /\ heap' = [heap EXCEPT ![results[k].pixels.base].data[
                                          results[k].pixels.off + p] = 7777]
            /\ written' = written \cup {<<k, "pixels", p>>}
    /\ UNCHANGED <<f, uf, results, ret, snap>>

\* the caller shortens the slice_info list of a result:
\* results[k].slice_info.pop()
ListPop ==
    /\ Cardinality(written) < MaxWrites
    /\ \E k \in 1 .. Len(results) :
        LET items == heap[results[k].slice_info].items
        IN  /\ items # <<>>
            /\ heap' = [heap EXCEPT ![results[k].slice_info].items =
                                        SubSeq(items, 1, Len(items) - 1)]
            /\ written' = written \cup {<<k, "slice_info", Len(items)>>}
    /\ UNCHANGED <<f, uf, results, ret, snap>>

Next == FromFile \/ SplitEchoes \/ SplitVolumes

Spec == Init /\ [][Next]_vars

\* The partition calls with a caller that writes to what they return, on
\* well-formed files of every slice count.
FrameFiles ==
    {StdFile(S) : S \in 0 .. MaxSlices}
    \cup {MkFile(GoodTitle, 3, Pad(<<S, 1, 1>>, 1),
                 Join(<<HeaderText>> \o recs, 1), PixelBytes(2 * S)) :
            S \in {MaxRecords}, recs \in [1 .. MaxRecords -> {Text(1, 2), Text(2, 1)}]}

InitFrame ==
    /\ f \in FrameFiles
    /\ heap = <<>>
    /\ uf = None
    /\ results = <<>>
    /\ ret = NoCall
    /\ snap = [uf |-> None, decoded |-> <<>>, split |-> <<>>]
    /\ written = {}

NextFrame == FromFile \/ SplitEchoes \/ SplitVolumes \/ SetPixel \/ ListPop

SpecFrame == InitFrame /\ [][NextFrame]_vars

\* ------------------------------------------------------- the claims: decode

\* what the original object holds
OrigItems == heap[uf.slice_info].items
OrigDimv == heap[uf.dimv].val

\* the samples the byte source offers from the Pixels address on
SamplesOnOffer == Len(f.pixels) \div 2

\* from_file reaches _read_info, and the info section is ASCII text
ReadsInfo == FixedFields(f).exc = NoExc /\ IsAscii(f.info)

\* C2 as amended: after a successful decode slice_info has dim_vector[0]
\* entries (none when dim_vector[0] is negative), they are the records built
\* from info[1] .. info[dim_vector[0]], each of them once, and they are in
\* non-decreasing order of slice_location, whatever the order of the records
\* in the file.
C2_SliceInfoSorted ==
    uf # None =>
        /\ Len(OrigItems) = IF OrigDimv[1] < 0 THEN 0 ELSE OrigDimv[1]
        /\ \A j \in 1 .. OrigDimv[1] :
              /\ \E k \in 1 .. Len(OrigItems) : OrigItems[k] = uf.header + j
              /\ heap[uf.header + j] = SliceHeader(uf.info[j + 1])
        /\ \A k \in 1 .. (Len(OrigItems) - 1) :
              Loc(heap, OrigItems[k]) <= Loc(heap, OrigItems[k + 1])

\* C2 as stated: the entries are dim_vector[0] in number, and sorted.
C2_Original ==
    uf # None =>
        /\ Len(OrigItems) = OrigDimv[1]
        /\ \A k \in 1 .. (Len(OrigItems) - 1) :
              Loc(heap, OrigItems[k]) <= Loc(heap, OrigItems[k + 1])

\* C2 witness: a decoded file of three slices whose records are out of order
\* in the file and two of which have the same slice_location.
C2_Witness ==
    /\ uf # None
    /\ Len(OrigItems) >= 3
    /\ \E j, k \in 1 .. Len(OrigItems) :
          j < k /\ Loc(heap, uf.header + j) > Loc(heap, uf.header + k)
    /\ \E j, k \in 1 .. Len(OrigItems) :
          j < k /\ Loc(heap, uf.header + j) = Loc(heap, uf.header + k)

\* C4: the decoded title holds no null byte, is at most 80 characters long
\* and is the part of the 81-byte field before its first null byte, also for
\* a field without a null byte.
C4_TitleBounded ==
    uf # None =>
        /\ \A i \in 1 .. Len(uf.title) : uf.title[i] # NUL
        /\ Len(uf.title) <= 80
        /\ \A i \in 1 .. Len(uf.title) : uf.title[i] = f.title[i]
        /\ Len(uf.title) < SIZES.title => f.title[Len(uf.title) + 1] = NUL

\* C5 as amended: when the earlier sections decode and the info section
\* holds fewer than 1 + dim_vector[0] non-empty records, from_file raises
\* IndexError and returns no object; an object it returns never has fewer
\* than dim_vector[0] slice records.
C5_FewRecordsFail ==
    /\ (ret.op = "from_file" /\ ReadsInfo
            /\ Len(InfoRecords(f.info)) < 1 + FixedFields(f).dimv[1])
        => (ret.exc = "IndexError" /\ uf = None)
    /\ uf # None => Len(OrigItems) >= OrigDimv[1]

\* C5 as stated: the failure is an InconsistentMetadataError.
C5_Original ==
    (ret.op = "from_file" /\ ReadsInfo
        /\ Len(InfoRecords(f.info)) < 1 + FixedFields(f).dimv[1])
    => (ret.exc = "InconsistentMetadataError" /\ uf = None)

\* C5 witness: from_file has failed on a file with a header record and some,
\* but too few, slice records.
C5_Witness ==
    /\ ret.op = "from_file" /\ ReadsInfo
    /\ Len(InfoRecords(f.info)) >= 2
    /\ Len(InfoRecords(f.info)) < 1 + FixedFields(f).dimv[1]
    /\ uf = None

\* from_file reaches _read_pixels
ReadsPixels ==
    /\ ReadsInfo
    /\ Len(InfoRecords(f.info)) >= 1 + FixedFields(f).dimv[1]

\* C6 as amended: when dim_count is not negative and the byte source offers
\* fewer than pixel_count samples, from_file raises (ValueError, from the
\* reshape, when it gets that far) and returns no object; an object it
\* returns, dim_count not being negative, has no fewer than pixel_count
\* pixels.
C6_ShortPixelsFail ==
    /\ (ret.op = "from_file" /\ FixedFields(f).exc = NoExc
            /\ FixedFields(f).dimc >= 0
            /\ SamplesOnOffer < FixedFields(f).pixel_count)
        => /\ uf = None
           /\ ret.exc # NoExc
           /\ ReadsPixels => ret.exc = "ValueError"
    /\ (uf # None /\ uf.dimc >= 0) =>
          /\ Len(heap[uf.pixels.base].data) >= uf.pixel_count
          /\ Size(uf.pixels.shape) = Len(heap[uf.pixels.base].data)

\* C6 as stated: the failure is a TruncatedInputError.
C6_Original ==
    (ret.op = "from_file" /\ ReadsPixels
        /\ SamplesOnOffer < FixedFields(f).pixel_count)
    => (ret.exc = "TruncatedInputError" /\ uf = None)

\* C6 witness: from_file has failed on a file whose sections are all well
\* formed but whose pixel stream ends one sample early.
C6_Witness ==
    /\ ret.op = "from_file" /\ ReadsPixels
    /\ SamplesOnOffer + 1 = FixedFields(f).pixel_count
    /\ SamplesOnOffer >= 2
    /\ uf = None

\* the first dim_count dimensions are those of an array
ProperDims ==
    /\ uf.dimc \in 0 .. 10
    /\ \A k \in 1 .. uf.dimc : OrigDimv[k] >= 0

\* C9 as amended: for dim_count in 0 .. 10 pixel_count is the product of the
\* first dim_count dimensions (1 for none); a decoded object none of whose
\* first dim_count dimensions is negative has that many pixels, in the shape
\* dim_vector[0 .. dim_count), and the sample at position p of the stream is
\* the element at the multi-index that is p in row-major order.
C9_PixelCountAndLayout ==
    /\ (/\ _read_dimc(f).exc = NoExc /\ _read_dimv(f).exc = NoExc
        /\ _read_dimc(f).dimc \in 0 .. 10)
        => LET n == _calculate_pixel_count(_read_dimc(f).dimc, _read_dimv(f).dimv)
           IN  /\ n.exc = NoExc
               /\ n.pixel_count = Prod(SubSeq(f.dimv, 1, f.dimc[1]))
    /\ (uf # None /\ ProperDims) =>
        LET shape == SubSeq(OrigDimv, 1, uf.dimc)
            data == ViewData(heap, uf.pixels)
        IN  /\ uf.pixel_count = Prod(shape)
            /\ uf.pixels.shape = shape
            /\ Len(data) = uf.pixel_count
            /\ \A p \in 0 .. (uf.pixel_count - 1) :
                  data[Ravel(shape, Unravel(shape, p)) + 1]
                      = I2(f.pixels[2 * p + 1], f.pixels[2 * p + 2])

\* C9 as stated: for every dim_vector, a decoded object with dim_count in
\* 0 .. 10 has pixel_count pixels in the shape dim_vector[0 .. dim_count).
C9_Original ==
    (uf # None /\ uf.dimc \in 0 .. 10) =>
        /\ Size(uf.pixels.shape) = uf.pixel_count
        /\ uf.pixels.shape = SubSeq(OrigDimv, 1, uf.dimc)

\* C9 witness: a decoded object of ten dimensions and four pixels, the first
\* of them negative; and one of no dimension.
C9_Witness ==
    /\ uf # None
    /\ uf.dimc = 10
    /\ uf.pixel_count = 4
    /\ ViewData(heap, uf.pixels)[1] < 0

\* ---------------------------------------------------- the claims: partition

\* the slice count of the original, pixels.shape[0]
Slices == uf.pixels.shape[1]

\* the slice_info list and the pixels of the k-th result (from 1)
ItemsOf(k) == heap[results[k].slice_info].items
PixelsOf(k) == ViewData(heap, results[k].pixels)

\* the slices [from, to) of the original, as the elements they hold
OrigRows(from, to) == ViewData(heap, SliceRows(uf.pixels, from, to))

\* the Echo Number values of the slice records, 0 for a record without one
EchoValues == {EchoGet(heap, OrigItems[k]) : k \in 1 .. Len(OrigItems)}

\* C1 as amended: for a decoded volume of three dimensions with S slices and
\* n_vols >= 1 dividing S, split_volumes(n_vols) returns n_vols objects; the
\* k-th (from 0) has the shape <<S / n_vols, rows, columns>> and holds the
\* slices [k * S / n_vols, (k + 1) * S / n_vols) of the original, in order and
\* with their values, so that the results' slices add up to S.
C1_VolumesPartition ==
    (/\ ret.op = "split_volumes" /\ ret.n >= 1
     /\ uf.dimc = 3 /\ Slices % ret.n = 0)
    => LET per == Slices \div ret.n
       IN  /\ ret.exc = NoExc
           /\ Len(results) = ret.n
           /\ \A k \in 1 .. Len(results) :
                 /\ results[k].pixels.shape
                        = <<per, uf.pixels.shape[2], uf.pixels.shape[3]>>
                 /\ PixelsOf(k) = OrigRows((k - 1) * per, k * per)
           /\ per * Len(results) = Slices

\* C1 as stated: for every decoded volume with a slice axis.
C1_Original ==
    (/\ ret.op = "split_volumes" /\ ret.n >= 1
     /\ Len(uf.pixels.shape) >= 1 /\ Slices % ret.n = 0)
    => (ret.exc = NoExc /\ Len(results) = ret.n)

\* C1 witness: three volumes of one slice each have been returned, the last
\* of which differs from the first.
C1_Witness ==
    /\ ret.op = "split_volumes" /\ ret.n = 3 /\ ret.exc = NoExc
    /\ uf.dimc = 3 /\ Slices = 3
    /\ Size(results[1].pixels.shape) >= 2
    /\ PixelsOf(3) # PixelsOf(1)

\* C3 as amended: num_echoes is the number of distinct Echo Number values;
\* when those values are exactly 1 .. N, N >= 1, and the volume has three
\* dimensions, split_echoes returns N objects, the n-th (from 0) holding
\* exactly the records with Echo Number n + 1, in the original's order: the
\* lists are disjoint and their lengths add up to the original's.
C3_EchoPartition ==
    /\ uf # None =>
          num_echoes(heap, uf)
              = Cardinality({v \in 0 .. 9 : \E k \in 1 .. Len(OrigItems) :
                    LET d == heap[OrigItems[k]].dicom_header
                    IN  IF DOMAIN d = {} THEN v = 0 ELSE v = d["Echo Number"]})
    /\ (/\ ret.op = "split_echoes" /\ uf.dimc = 3
        /\ \E N \in 1 .. 9 : EchoValues = 1 .. N)
        => /\ ret.exc = NoExc
           /\ EchoValues = 1 .. Len(results)
           /\ \A n \in 1 .. Len(results) :
                 /\ \A j \in 1 .. Len(ItemsOf(n)) :
                       EchoGet(heap, ItemsOf(n)[j]) = n
                 /\ \A k \in 1 .. Len(OrigItems) :
                       EchoGet(heap, OrigItems[k]) = n
                           => \E j \in 1 .. Len(ItemsOf(n)) :
                                  ItemsOf(n)[j] = OrigItems[k]
                 /\ \A i, j \in 1 .. Len(ItemsOf(n)) :
                       i < j => \E a, b \in 1 .. Len(OrigItems) :
                           /\ a < b
                           /\ OrigItems[a] = ItemsOf(n)[i]
                           /\ OrigItems[b] = ItemsOf(n)[j]
           /\ \A m, n \in 1 .. Len(results) :
                 m # n => \A i \in 1 .. Len(ItemsOf(m)) :
                              \A j \in 1 .. Len(ItemsOf(n)) :
                                  ItemsOf(m)[i] # ItemsOf(n)[j]
           /\ Len(OrigItems)
                 = Len(ItemsOf(1))
                   + (IF Len(results) >= 2 THEN Len(ItemsOf(2)) ELSE 0)
                   + (IF Len(results) >= 3 THEN Len(ItemsOf(3)) ELSE 0)
                   + (IF Len(results) >= 4 THEN Len(ItemsOf(4)) ELSE 0)
                   + (IF Len(results) >= 5 THEN Len(ItemsOf(5)) ELSE 0)

\* C3 as stated: whatever the number of dimensions.
C3_Original ==
    (/\ ret.op = "split_echoes"
     /\ \E N \in 1 .. 9 : EchoValues = 1 .. N)
    => (ret.exc = NoExc /\ EchoValues = 1 .. Len(results))

\* C3 witness: two echoes with two slices and one slice have been split.
C3_Witness ==
    /\ ret.op = "split_echoes" /\ ret.exc = NoExc
    /\ Len(results) = 2
    /\ Len(ItemsOf(1)) = 2
    /\ Len(ItemsOf(2)) = 1

\* the number by which the last partition call divided the slice count
Divisor == IF ret.op = "split_echoes" THEN num_echoes(heap, uf) ELSE ret.n

\* C7: split_echoes and split_volumes fail when the slice count is not
\* divisible by num_echoes (n_vols), and no slice is left out of every
\* partition returned.  Any exception is accepted as the failure here.
C7_UnevenSplitFails ==
    (/\ ret.op \in {"split_echoes", "split_volumes"}
     /\ Len(uf.pixels.shape) >= 1 /\ Divisor >= 1)
    => /\ Slices % Divisor # 0 => (ret.exc # NoExc /\ results = <<>>)
       /\ ret.exc = NoExc =>
             \A s \in 0 .. (Slices - 1) :
                 \E k \in 1 .. Len(results) :
                     \E j \in 0 .. (results[k].pixels.shape[1] - 1) :
                         s = (k - 1) * results[k].pixels.shape[1] + j

Cells(a) == {a.off + p : p \in 1 .. Size(a.shape)}

\* C8: the partition operations leave the original as it was (its fields and
\* every object it holds); each result holds the original's header, dim_count
\* and dim_vector themselves, and a slice_info list and pixels created by the
\* call and shared with no other result, so that a write to one result's
\* pixels or slice_info list changes neither the original's nor another
\* result's.
C8_Frame ==
    uf # None =>
        /\ uf = snap.uf
        /\ Base(heap) = snap.decoded
        /\ \A k \in 1 .. Len(results) :
              /\ results[k].header = uf.header
              /\ results[k].dimc = uf.dimc
              /\ results[k].dimv = uf.dimv
              /\ results[k].slice_info > Len(snap.decoded)
              /\ results[k].pixels.base > Len(snap.decoded)
              /\ \A m \in 1 .. Len(results) :
                    m # k =>
                        /\ results[m].slice_info # results[k].slice_info
                        /\ results[m].pixels.base = results[k].pixels.base
                              => Cells(results[m].pixels)
                                     \cap Cells(results[k].pixels) = {}
              /\ (\A w \in written : w[1] # k \/ w[2] # "pixels")
                    => PixelsOf(k) = ViewData(snap.split, results[k].pixels)
              /\ (\A w \in written : w[1] # k \/ w[2] # "slice_info")
                    => ItemsOf(k) = snap.split[results[k].slice_info].items

\* C8 witness: of two results, the first has had a pixel and its slice_info
\* list written to.
C8_Witness ==
    /\ Len(results) >= 2
    /\ \E w \in written : w[1] = 1 /\ w[2] = "pixels"
    /\ \E w \in written : w[1] = 1 /\ w[2] = "slice_info"
    /\ Size(results[2].pixels.shape) >= 1
    /\ ItemsOf(2) # <<>>
====
